---- MODULE Spec2Model ----
(***************************************************************************)
(* Model of examples/books_scraper.py: the per-fragment record extraction, *)
(* the page loop of scrape_all_books and the steps of main.                *)
(*                                                                         *)
(* Text is a sequence of one-character strings, so that strip(), replace() *)
(* and float() are computed on the characters.  A price is held in         *)
(* hundredths of a pound (an integer); the sample price texts carry at     *)
(* most two decimals.  An optional value (an attribute or an element that  *)
(* may be absent) is a sequence of length 0 (absent) or 1 (present).       *)
(***************************************************************************)
EXTENDS Integers, Sequences, FiniteSets, TLC

VARIABLES
    pc,            \* position of main: see the actions below
    max_pages,     \* argument of scrape_all_books
    page,          \* loop variable of scrape_all_books
    all_books,     \* the list scrape_all_books accumulates
    events,        \* the calls of requests.get and time.sleep, in order
    served,        \* per request, in order: whether the page loaded, and its fragments
    df,            \* the DataFrame of main, as a sequence of rows
    summary,       \* what display_summary printed (absent until it ran)
    csv_file,      \* rows written to books_data.csv (absent until written)
    xlsx_file,     \* rows written to books_data.xlsx (absent until written)
    stdout,        \* the messages of main that the run printed
    exc,           \* the exception that left main, "none" if none
    book_element,  \* argument of a direct call of extract_book_data
    book           \* outcome of that call (absent until it ran)

vars == <<pc, max_pages, page, all_books, events, served, df, summary,
          csv_file, xlsx_file, stdout, exc, book_element, book>>

runVars == <<pc, max_pages, page, all_books, events, served, df, summary,
             csv_file, xlsx_file, stdout, exc>>

\* ------------------------------------------------------------------ bounds

MaxPages == 3
MaxTokens == 2

\* --------------------------------------------------------------- constants

BASE_URL == <<"https://books.toscrape.com/">>

CATALOGUE_URL(n) == BASE_URL \o <<"catalogue/page-", ToString(n), ".html">>

REQUEST_DELAY == 1

RatingWords == {"One", "Two", "Three", "Four", "Five"}

RATING_MAP ==
    [w \in RatingWords |->
        CASE w = "One" -> 1 [] w = "Two" -> 2 [] w = "Three" -> 3
          [] w = "Four" -> 4 [] w = "Five" -> 5]

\* dict.get(key, default)
DictGet(d, key, default) == IF key \in DOMAIN d THEN d[key] ELSE default

\* ------------------------------------------------------------ text helpers

None == <<>>
Some(x) == <<x>>

Digits == {"0", "1", "2", "3", "4", "5", "6", "7", "8", "9"}

DigitValue(c) ==
    CHOOSE n \in 0..9 : <<"0", "1", "2", "3", "4", "5", "6", "7", "8", "9">>[n + 1] = c

\* str.strip(): leading and trailing whitespace removed
RECURSIVE LStrip(_)
LStrip(s) == IF s # <<>> /\ Head(s) = " " THEN LStrip(Tail(s)) ELSE s

RECURSIVE RStrip(_)
RStrip(s) ==
    IF s # <<>> /\ s[Len(s)] = " " THEN RStrip(SubSeq(s, 1, Len(s) - 1)) ELSE s

Strip(s) == RStrip(LStrip(s))

\* str.replace(old, new): every non-overlapping occurrence, left to right
RECURSIVE Replace(_, _, _)
Replace(s, old, new) ==
    IF Len(s) < Len(old) THEN s
    ELSE IF SubSeq(s, 1, Len(old)) = old
         THEN new \o Replace(SubSeq(s, Len(old) + 1, Len(s)), old, new)
         ELSE <<Head(s)>> \o Replace(Tail(s), old, new)

RECURSIVE DigitPrefixLen(_)
DigitPrefixLen(s) ==
    IF s # <<>> /\ Head(s) \in Digits THEN 1 + DigitPrefixLen(Tail(s)) ELSE 0

RECURSIVE DigitsValue(_)
DigitsValue(s) ==
    IF s = <<>> THEN 0
    ELSE 10 * DigitsValue(SubSeq(s, 1, Len(s) - 1)) + DigitValue(s[Len(s)])

\* The parts of a decimal literal as float() reads it: surrounding whitespace
\* dropped, an optional sign, integer digits, and an optional point with
\* fraction digits.  (Over the characters of PriceTexts; exponents, "inf",
\* "nan" and digit separators are outside that alphabet.)
FloatParts(s) ==
    LET t == Strip(s)
        signed == t # <<>> /\ Head(t) \in {"+", "-"}
        u == IF signed THEN Tail(t) ELSE t
        n == DigitPrefixLen(u)
        rest == SubSeq(u, n + 1, Len(u))
        pointed == rest # <<>> /\ Head(rest) = "."
        frac == IF pointed THEN Tail(rest) ELSE <<>>
    IN  [neg |-> signed /\ Head(t) = "-",
         int |-> SubSeq(u, 1, n),
         frac |-> frac,
         wellFormed |-> /\ rest = <<>> \/ pointed
                        /\ DigitPrefixLen(frac) = Len(frac)
                        /\ n + Len(frac) > 0]

\* float(s) raises ValueError exactly when this is FALSE
IsFloat(s) == FloatParts(s).wellFormed

\* float(s) in hundredths, for a literal with at most two fraction digits
ToFloat(s) ==
    LET p == FloatParts(s)
        f == IF Len(p.frac) = 0 THEN 0
             ELSE IF Len(p.frac) = 1 THEN 10 * DigitsValue(p.frac)
             ELSE DigitsValue(SubSeq(p.frac, 1, 2))
        v == 100 * DigitsValue(p.int) + f
    IN  IF p.neg THEN 0 - v ELSE v

\* ------------------------------------------------------- extract_book_data

Raised(kind) == [raised |-> TRUE, kind |-> kind, value |-> <<>>]
Returned(v) == [raised |-> FALSE, kind |-> "none", value |-> <<v>>]

DefaultPriceText == <<"£", "0", ".", "0", "0">>

\* price_text of lines 85-86
PriceText(b) ==
    IF b.price_color # None THEN Strip(b.price_color[1]) ELSE DefaultPriceText

\* the argument of float() on line 87
PriceNumberText(b) == Replace(Replace(PriceText(b), <<"£">>, <<>>), <<"Â">>, <<>>)

RatingOfWrongToken(rating_class) ==
    LET rating_word == IF Len(rating_class) > 0 THEN rating_class[1] ELSE "Zero"
    IN  DictGet(RATING_MAP, rating_word, 0)

\* lines 92-93, from the class list of the rating element
RatingOf(rating_class) ==
    LET rating_word == IF Len(rating_class) > 1 THEN rating_class[2] ELSE "Zero"
    IN  DictGet(RATING_MAP, rating_word, 0)

\* line 100
BookUrl(b) ==
    LET href == IF b.href # None THEN b.href[1] ELSE <<>>
    IN  BASE_URL \o <<"catalogue/">> \o Replace(href, <<".", ".", "/">>, <<>>)

\* extract_book_data(book_element): the record it returns, or the exception
\* that leaves it.  The statements run in source order, so the first failing
\* one decides the exception.
extract_book_data(b) ==
    IF b.h3 # "link"
    THEN Raised("AttributeError")                     \* line 81 or 82: None has no find/get
    ELSE IF ~IsFloat(PriceNumberText(b))
    THEN Raised("ValueError")                         \* line 87
    ELSE IF b.star_rating = None
    THEN Raised("AttributeError")                     \* line 91
    ELSE Returned(
           [Title |-> IF b.title # None THEN b.title[1] ELSE "Unknown Title",
            Price |-> ToFloat(PriceNumberText(b)),
            Rating |-> RatingOf(b.star_rating[1]),
            Availability |-> IF b.instock THEN "In Stock" ELSE "Out of Stock",
            URL |-> BookUrl(b)])

\* ------------------------------------------------- listing fragments (input)

\* Texts of the price element
PriceTexts ==
    { <<"£", "5", ".", "0", "0">>,
      <<"Â", "£", "1", "0", ".", "0", "0">>,
      <<"£", "0", ".", "0", "0">>,
      <<" ", "£", "7", ".", "5", " ">>,
      <<"£", "-", "1", ".", "0", "0">>,
      <<"N", "/", "A">>,
      <<"£">>,
      <<>> }

\* Values of the href attribute of the title link
Hrefs ==
    { <<>>,
      <<"a", "/", "i">>,
      <<".", ".", "/", "a", "/", "i">>,
      <<".", ".", "/", ".", ".", "/", "a">>,
      <<"a", "/", ".", ".", "/", "b">>,
      <<".", ".", "/", "a", "/", ".", ".", "/", "b">> }

Titles == {"A", "B"}

ClassTokens == {"star-rating", "One", "Two", "Three", "Four", "Five", "Zero"}

RECURSIVE SeqsUpTo(_, _)
SeqsUpTo(S, n) ==
    IF n = 0 THEN {<<>>}
    ELSE LET shorter == SeqsUpTo(S, n - 1)
         IN  shorter \cup {Append(s, x) : s \in shorter, x \in S}

\* find("p", class_="star-rating") returns an element whose class list holds
\* that token
RatingClassLists ==
    {c \in SeqsUpTo(ClassTokens, MaxTokens) : \E i \in 1..Len(c) : c[i] = "star-rating"}

Option(S) == {None} \cup {Some(x) : x \in S}

Fragments ==
    [h3 : {"absent", "nolink", "link"},
     title : Option(Titles),
     href : Option(Hrefs),
     price_color : Option(PriceTexts),
     star_rating : Option(RatingClassLists),
     instock : BOOLEAN]

\* ------------------------------------------------------------- the web site

\* Well-formed listing fragment of a book
Book(title, href, price_text, rating_word, instock) ==
    [h3 |-> "link", title |-> Some(title), href |-> Some(href),
     price_color |-> Some(price_text),
     star_rating |-> Some(<<"star-rating", rating_word>>), instock |-> instock]

BookA == Book("A", <<"a">>, <<"£", "1", "0", ".", "0", "0">>, "Five", TRUE)
BookB == Book("B", <<"b">>, <<"£", "5", ".", "0", "0">>, "Five", FALSE)
BookC == Book("C", <<"c">>, <<"£", "1", "0", ".", "0", "0">>, "Five", TRUE)
BookD == Book("D", <<"d">>, <<"Â", "£", "5", ".", "0", "0">>, "Three", TRUE)
NoTitleBook == [BookA EXCEPT !.h3 = "absent"]
BadPriceBook == [BookB EXCEPT !.price_color = Some(<<"N", "/", "A">>)]

\* The article.product_pod elements of a page, in document order
SamplePages ==
    { <<>>,
      <<BookA>>,
      <<BookA, BookB>>,
      <<BookC, BookA>>,
      <<BookD, BookC>>,
      <<BookB, BookB>>,
      <<NoTitleBook>>,
      <<BookA, BadPriceBook>> }

\* The requests exceptions get_page catches: a timeout, a connection (DNS)
\* failure, and the HTTPError of raise_for_status on a bad status
FetchFailures == {"Timeout", "ConnectionError", "HTTPError"}

Responses ==
    {[error |-> e, body |-> <<>>] : e \in FetchFailures}
        \cup {[error |-> "none", body |-> b] : b \in SamplePages}

\* ------------------------------------------------------- scraping functions

\* get_page(url): the parsed page, or None after a caught RequestException
get_page(resp) == IF resp.error # "none" THEN None ELSE Some(resp.body)

PageUrl(page_number) ==
    IF page_number = 1 THEN BASE_URL ELSE CATALOGUE_URL(page_number)

\* the list comprehension of line 135: the records in document order, or the
\* exception of the first fragment whose extraction raises
RECURSIVE ExtractAll(_)
ExtractAll(books) ==
    IF books = <<>> THEN Returned(<<>>)
    ELSE LET first == extract_book_data(Head(books))
         IN  IF first.raised THEN first
             ELSE LET others == ExtractAll(Tail(books))
                  IN  IF others.raised THEN others
                      ELSE Returned(<<first.value[1]>> \o others.value[1])

RECURSIVE Dedup(_)
Dedup(s) ==
    IF s = <<>> THEN <<>>
    ELSE LET front == Dedup(SubSeq(s, 1, Len(s) - 1))
         IN  IF \E i \in 1..Len(front) : front[i] = s[Len(s)]
             THEN front ELSE Append(front, s[Len(s)])

ExtendDedup(books_so_far, books) == Dedup(books_so_far \o books)

\* all_books.extend(books), line 152
Extend(books_so_far, books) == books_so_far \o books

\* scrape_page(page_number) given what the site answers
scrape_page(resp) ==
    LET soup == get_page(resp)
    IN  IF soup = None THEN Returned(<<>>) ELSE ExtractAll(soup[1])

\* --------------------------------------------------------- data processing

\* Row a is placed strictly before row b by
\* sort_values(by=["Rating", "Price"], ascending=[False, True])
Before(a, b) ==
    \/ a.Rating > b.Rating
    \/ a.Rating = b.Rating /\ a.Price < b.Price

\* x, which came after every row of the sorted t, goes in front of the first
\* row it is strictly before: rows of equal keys keep their order
RECURSIVE InsertRow(_, _)
InsertRow(x, t) ==
    IF t = <<>> THEN <<x>>
    ELSE IF Before(x, Head(t)) THEN <<x>> \o t
    ELSE <<Head(t)>> \o InsertRow(x, Tail(t))

RECURSIVE SortValues(_)
SortValues(rows) ==
    IF rows = <<>> THEN <<>>
    ELSE InsertRow(rows[Len(rows)], SortValues(SubSeq(rows, 1, Len(rows) - 1)))

RECURSIVE InsertRowFront(_, _)
InsertRowFront(x, t) ==
    IF t = <<>> THEN <<x>>
    ELSE IF ~Before(Head(t), x) THEN <<x>> \o t
    ELSE <<Head(t)>> \o InsertRowFront(x, Tail(t))

RECURSIVE SortValuesUnstable(_)
SortValuesUnstable(rows) ==
    IF rows = <<>> THEN <<>>
    ELSE InsertRowFront(rows[Len(rows)],
                        SortValuesUnstable(SubSeq(rows, 1, Len(rows) - 1)))

create_dataframe_unstable(books_data) == SortValuesUnstable(books_data)

\* create_dataframe(books_data): the rows, sorted
create_dataframe(books_data) == SortValues(books_data)

RECURSIVE SumOf(_, _)
SumOf(rows, col) ==
    IF rows = <<>> THEN 0 ELSE rows[1][col] + SumOf(Tail(rows), col)

\* what display_summary(df) prints; the two means are total / count
SummaryOf(rows) ==
    [count |-> Len(rows),
     total_price |-> SumOf(rows, "Price"),
     min_price |-> CHOOSE p \in {rows[i].Price : i \in 1..Len(rows)} :
                      \A j \in 1..Len(rows) : p <= rows[j].Price,
     max_price |-> CHOOSE p \in {rows[i].Price : i \in 1..Len(rows)} :
                      \A j \in 1..Len(rows) : p >= rows[j].Price,
     total_rating |-> SumOf(rows, "Rating"),
     distribution |-> [r \in 0..5 |->
                          Cardinality({i \in 1..Len(rows) : rows[i].Rating = r})],
     top_books |-> [i \in 1..(IF Len(rows) < 5 THEN Len(rows) ELSE 5) |->
                      [Title |-> rows[i].Title, Price |-> rows[i].Price,
                       Rating |-> rows[i].Rating]]]

\* --------------------------------------------------------------- the run

NoException == [kind |-> "none", at |-> "none"]

RunInit(mp) ==
    /\ pc = "start"
    /\ max_pages = mp
    /\ page = 0
    /\ all_books = <<>>
    /\ events = <<>>
    /\ served = <<>>
    /\ df = <<>>
    /\ summary = None
    /\ csv_file = None
    /\ xlsx_file = None
    /\ stdout = <<>>
    /\ exc = NoException

\* main passes max_pages = 3 (line 232); the run is modelled for every argument
\* 0..MaxPages of scrape_all_books
Init ==
    /\ \E mp \in 0..MaxPages : RunInit(mp)
    /\ book_element = None
    /\ book = None

\* main, lines 219-232 and 148-150: the banner, the output directory, and the
\* entry of scrape_all_books(max_pages) up to the first test of its loop
Start ==
    /\ pc = "start"
    /\ \E made \in BOOLEAN :
          IF ~made
          THEN /\ exc' = [kind |-> "OSError", at |-> "makedirs"]
               /\ pc' = "crashed"
               /\ UNCHANGED page
          ELSE /\ page' = 1
               /\ pc' = IF 1 <= max_pages THEN "scrape" ELSE "check"
               /\ UNCHANGED exc
    /\ UNCHANGED <<max_pages, all_books, events, served, df, summary, csv_file,
                   xlsx_file, stdout, book_element, book>>

\* One iteration of the loop of scrape_all_books up to the test of line 157:
\* scrape_page(page), with the request it issues, and all_books.extend
ScrapePage ==
    /\ pc = "scrape"
    /\ \E resp \in Responses :
          LET books == scrape_page(resp)
          IN  /\ events' = Append(events, [op |-> "get", url |-> PageUrl(page),
                                           seconds |-> 0])
              /\ served' = Append(served, [loaded |-> resp.error = "none",
                                           fragments |-> resp.body])
              /\ IF books.raised
                 THEN /\ exc' = [kind |-> books.kind, at |-> "extract_book_data"]
                      /\ pc' = "crashed"
                      /\ UNCHANGED all_books
                 ELSE /\ all_books' = Extend(all_books, books.value[1])
                      /\ pc' = IF page < max_pages THEN "sleep" ELSE "check"
                      /\ UNCHANGED exc
    /\ UNCHANGED <<max_pages, page, df, summary, csv_file, xlsx_file, stdout,
                   book_element, book>>

\* time.sleep(REQUEST_DELAY), line 158, and the step of the loop
Sleep ==
    /\ pc = "sleep"
    /\ events' = Append(events, [op |-> "sleep", url |-> <<>>,
                                 seconds |-> REQUEST_DELAY])
    /\ page' = page + 1
    /\ pc' = "scrape"
    /\ UNCHANGED <<max_pages, all_books, served, df, summary, csv_file,
                   xlsx_file, stdout, exc, book_element, book>>

CheckDataAlwaysProceeds ==
    /\ pc = "check"
    /\ pc' = "create"
    /\ UNCHANGED <<max_pages, page, all_books, events, served, df, summary,
                   csv_file, xlsx_file, stdout, exc, book_element, book>>

\* main, lines 234-236: books_data is what scrape_all_books returned
CheckData ==
    /\ pc = "check"
    /\ IF all_books = <<>>
       THEN /\ stdout' = Append(stdout, "No data scraped")
            /\ pc' = "done"
       ELSE /\ pc' = "create"
            /\ UNCHANGED stdout
    /\ UNCHANGED <<max_pages, page, all_books, events, served, df, summary,
                   csv_file, xlsx_file, exc, book_element, book>>

\* main, line 239
CreateDataFrame ==
    /\ pc = "create"
    /\ df' = create_dataframe(all_books)
    /\ pc' = "summary"
    /\ UNCHANGED <<max_pages, page, all_books, events, served, summary,
                   csv_file, xlsx_file, stdout, exc, book_element, book>>

\* main, line 242
DisplaySummary ==
    /\ pc = "summary"
    /\ summary' = Some(SummaryOf(df))
    /\ pc' = "save_csv"
    /\ UNCHANGED <<max_pages, page, all_books, events, served, df, csv_file,
                   xlsx_file, stdout, exc, book_element, book>>

SaveToCsvSwallows ==
    /\ pc = "save_csv"
    /\ \E written \in BOOLEAN :
          IF written
          THEN /\ csv_file' = Some(df)
               /\ stdout' = Append(stdout, "Data saved to csv")
          ELSE UNCHANGED <<csv_file, stdout>>
    /\ pc' = "save_excel"
    /\ UNCHANGED <<max_pages, page, all_books, events, served, df, summary,
                   xlsx_file, exc, book_element, book>>

\* save_to_csv(df, csv_path), line 252: to_csv writes the file or raises
SaveToCsv ==
    /\ pc = "save_csv"
    /\ \E written \in BOOLEAN :
          IF written
          THEN /\ csv_file' = Some(df)
               /\ stdout' = Append(stdout, "Data saved to csv")
               /\ pc' = "save_excel"
               /\ UNCHANGED exc
          ELSE /\ exc' = [kind |-> "OSError", at |-> "save_to_csv"]
               /\ pc' = "crashed"
               /\ UNCHANGED <<csv_file, stdout>>
    /\ UNCHANGED <<max_pages, page, all_books, events, served, df, summary,
                   xlsx_file, book_element, book>>

\* save_to_excel(df, excel_path) and the closing messages, lines 253-256
SaveToExcel ==
    /\ pc = "save_excel"
    /\ \E written \in BOOLEAN :
          IF written
          THEN /\ xlsx_file' = Some(df)
               /\ stdout' = stdout \o <<"Data saved to xlsx",
                                        "Scraping completed successfully">>
               /\ pc' = "done"
               /\ UNCHANGED exc
          ELSE /\ exc' = [kind |-> "OSError", at |-> "save_to_excel"]
               /\ pc' = "crashed"
               /\ UNCHANGED <<xlsx_file, stdout>>
    /\ UNCHANGED <<max_pages, page, all_books, events, served, df, summary,
                   csv_file, book_element, book>>

Next ==
    \/ Start
    \/ ScrapePage
    \/ Sleep
    \/ CheckData
    \/ CreateDataFrame
    \/ DisplaySummary
    \/ SaveToCsv
    \/ SaveToExcel

Spec == Init /\ [][Next]_vars

\* ------------------------------------ a direct call of extract_book_data

InitExtract ==
    /\ RunInit(0)
    /\ book_element \in Fragments
    /\ book = None

ExtractBookData ==
    /\ book = None
    /\ book' = Some(extract_book_data(book_element))
    /\ UNCHANGED <<book_element, runVars>>

NextExtract == ExtractBookData

SpecExtract == InitExtract /\ [][NextExtract]_vars

\* ------------------------------------------------------------------ claims

Range(f) == {f[i] : i \in DOMAIN f}

\* scrape_all_books was entered and has returned or raised
ScrapeAllEnded == pc \notin {"start", "scrape", "sleep"} /\ exc.at # "makedirs"

ExtractionRaised == exc.at = "extract_book_data"

\* The calls a run over n pages is to make: get(page 1), sleep, get(page 2),
\* ..., get(page n)
ExpectedEvents(n) ==
    [i \in 1..(2 * n - 1) |->
        IF i % 2 = 1
        THEN [op |-> "get", url |-> PageUrl((i + 1) \div 2), seconds |-> 0]
        ELSE [op |-> "sleep", url |-> <<>>, seconds |-> REQUEST_DELAY]]

\* C1: once scrape_all_books(max_pages) has ended, for max_pages >= 1, it has
\* issued exactly one fetch per page 1..max_pages in ascending order with one
\* sleep after each fetch but the last (max_pages - 1 sleeps).
\* Violated: a fragment whose extraction raises (see C4, C6) ends the loop early.
C1_FetchesAndSleeps ==
    (ScrapeAllEnded /\ max_pages >= 1) => events = ExpectedEvents(max_pages)

\* The DataFrame of main has been built from what scrape_all_books returned
DfBuilt == pc \in {"summary", "save_csv", "save_excel"} \/ summary # None

SameKey(a, b) == a.Rating = b.Rating /\ a.Price = b.Price

RowsWithKey(rows, k) ==
    LET Test(x) == SameKey(x, k) IN SelectSeq(rows, Test)

\* C2: the sorted sequence built from the result of scrape_all_books is ordered
\* by rating descending, then price ascending, and rows equal on both keep the
\* order they had in the page-order concatenation (it is a stable
\* rearrangement of all_books).
C2_SortedStable ==
    DfBuilt =>
        /\ Len(df) = Len(all_books)
        /\ \A i \in 1..(Len(df) - 1) :
              \/ df[i].Rating > df[i + 1].Rating
              \/ df[i].Rating = df[i + 1].Rating /\ df[i].Price <= df[i + 1].Price
        /\ \A k \in Range(all_books) \cup Range(df) :
              RowsWithKey(df, k) = RowsWithKey(all_books, k)

\* C2 witness: a finished run whose table was reordered and holds two rows of
\* equal rating and price but different titles, and rows of different ratings
C2_Witness ==
    /\ pc = "done"
    /\ DfBuilt
    /\ df # all_books
    /\ \E i, j \in 1..Len(df) :
          i < j /\ SameKey(df[i], df[j]) /\ df[i].Title # df[j].Title
    /\ \E i, j \in 1..Len(df) : df[i].Rating # df[j].Rating
    /\ \E i, j \in 1..Len(df) :
          df[i].Rating = df[j].Rating /\ df[i].Price # df[j].Price

RECURSIVE FragmentsOf(_)
FragmentsOf(pages) ==
    IF pages = <<>> THEN <<>>
    ELSE (IF Head(pages).loaded THEN Head(pages).fragments ELSE <<>>)
            \o FragmentsOf(Tail(pages))

\* The pages whose records the aggregator has taken in: every page fetched,
\* but the one whose extraction raised
Processed ==
    IF ExtractionRaised THEN SubSeq(served, 1, Len(served) - 1) ELSE served

\* C3: when a page's fetch has failed, once scrape_all_books has ended no
\* exception has left it, every page 1..max_pages was fetched, the failed page
\* contributed nothing, and the result is the records of the loaded pages.
\* Violated: a later page with a fragment whose extraction raises (see C4, C6)
\* aborts the run, and the pages after it are never fetched.
C3_FetchFailureTolerated ==
    (ScrapeAllEnded /\ \E k \in 1..Len(served) : ~served[k].loaded) =>
        /\ ~ExtractionRaised
        /\ Len(served) = max_pages
        /\ Len(all_books) = Len(FragmentsOf(served))
        /\ \A i \in 1..Len(all_books) :
              all_books[i] = extract_book_data(FragmentsOf(served)[i]).value[1]

\* C4: a call of extract_book_data never raises: it returns a record with the
\* five fields, whatever the fragment lacks.
\* Violated: a fragment without the title container, its link or the rating
\* element raises AttributeError; a malformed price text raises ValueError.
C4_ExtractNeverFails ==
    book # None =>
        /\ ~book[1].raised
        /\ DOMAIN book[1].value[1] = {"Title", "Price", "Rating", "Availability", "URL"}

RatingWordOrder == <<"One", "Two", "Three", "Four", "Five">>

\* C5: the extracted rating is in 0..5; it is the number of the second class
\* token when that is one of One..Five, and 0 when there are fewer than two
\* tokens or the second is no rating word.
C5_RatingFromSecondToken ==
    (book # None /\ ~book[1].raised) =>
        LET c == book_element.star_rating[1]
            rating == book[1].value[1].Rating
        IN  /\ rating \in 0..5
            /\ Len(c) < 2 => rating = 0
            /\ Len(c) >= 2 =>
                  /\ \A n \in 1..5 : c[2] = RatingWordOrder[n] => rating = n
                  /\ c[2] \notin Range(RatingWordOrder) => rating = 0

\* C5 witness: tokens [star-rating, Three] were extracted as 3
C5_Witness ==
    /\ book # None
    /\ ~book[1].raised
    /\ book_element.star_rating = Some(<<"star-rating", "Three">>)
    /\ book[1].value[1].Rating = 3

\* C6: with the title link and the rating element present, price extraction
\* never raises and the price is non-negative, 0 for a missing price element.
\* Violated: float() raises ValueError on a malformed price text, and a text
\* with a minus sign is read as a negative price.
C6_PriceNeverRaises ==
    (book # None /\ book_element.h3 = "link" /\ book_element.star_rating # None) =>
        /\ ~book[1].raised
        /\ book[1].value[1].Price >= 0
        /\ book_element.price_color = None => book[1].value[1].Price = 0

WriteFailed == exc.at \in {"save_to_csv", "save_to_excel"}

SuccessPrinted == "Scraping completed successfully" \in Range(stdout)

\* C7: a failed export write leaves main as an exception: the run is over, no
\* further step is taken, and the summary was displayed before; the
\* spreadsheet write is attempted only after the CSV file was written, and the
\* success message is printed only after both files were written.
C7_WriteFailureAborts ==
    /\ WriteFailed =>
          /\ pc = "crashed"
          /\ ~ENABLED Next
          /\ summary # None
          /\ ~SuccessPrinted
          /\ exc.at = "save_to_csv" => csv_file = None /\ xlsx_file = None
          /\ exc.at = "save_to_excel" => xlsx_file = None
    /\ pc = "save_excel" => csv_file # None
    /\ xlsx_file # None => csv_file # None
    /\ SuccessPrinted => csv_file # None /\ xlsx_file # None

\* C7 witness: the CSV write failed after the summary was displayed
C7_Witness == exc.at = "save_to_csv" /\ summary # None /\ pc = "crashed"

\* C8: the accumulated sequence is, record for record, the extraction of the
\* fragments of the loaded pages taken in so far, in page order and document
\* order: one record per fragment, none dropped, reordered or merged.
C8_PageOrderConcatenation ==
    LET fr == FragmentsOf(Processed)
    IN  /\ Len(all_books) = Len(fr)
        /\ \A i \in 1..Len(fr) :
              LET r == extract_book_data(fr[i])
              IN  ~r.raised /\ all_books[i] = r.value[1]

\* C8 witness: two pages listing the same book gave two equal records
C8_Witness ==
    /\ Len(served) >= 2
    /\ served[1].fragments = <<BookA>>
    /\ served[2].fragments = <<BookA, BookB>>
    /\ Len(all_books) = 3
    /\ all_books[1] = all_books[2]

RECURSIVE StripLeadingParents(_)
StripLeadingParents(s) ==
    IF Len(s) >= 3 /\ SubSeq(s, 1, 3) = <<".", ".", "/">>
    THEN StripLeadingParents(SubSeq(s, 4, Len(s)))
    ELSE s

\* C9: the url of a record is the catalogue base path followed by the link
\* with only its leading "../" segments removed (the base path alone for an
\* absent link).
\* Violated: replace() also removes a "../" that is not at the start.
C9_UrlStripsLeadingOnly ==
    (book # None /\ ~book[1].raised) =>
        book[1].value[1].URL =
            BASE_URL \o <<"catalogue/">>
                \o StripLeadingParents(IF book_element.href = None THEN <<>>
                                       ELSE book_element.href[1])

NoDataPrinted == "No data scraped" \in Range(stdout)

\* C10: with an empty aggregate main prints the no-data message and returns:
\* no table, no summary, no file; a file is written only in a run that
\* scraped a record, and after the summary was displayed.
C10_EmptyAggregate ==
    /\ (ScrapeAllEnded /\ ~ExtractionRaised /\ all_books = <<>>) =>
          /\ pc \in {"check", "done"}
          /\ pc = "done" => NoDataPrinted
          /\ df = <<>> /\ summary = None /\ csv_file = None /\ xlsx_file = None
          /\ exc = NoException
    /\ NoDataPrinted => all_books = <<>> /\ pc = "done"
    /\ (pc \in {"save_csv", "save_excel"} \/ csv_file # None \/ xlsx_file # None
            \/ WriteFailed) =>
          all_books # <<>> /\ summary # None

\* C10 witness: a finished run of several pages, one failed and one without
\* fragments, that scraped nothing
C10_Witness ==
    /\ pc = "done"
    /\ all_books = <<>>
    /\ NoDataPrinted
    /\ Len(served) >= 2
    /\ \E k \in 1..Len(served) : ~served[k].loaded
    /\ \E k \in 1..Len(served) : served[k].loaded

====
